---- MODULE Spec2Model ----
(***************************************************************************)
(* Document enrichment pipeline of AI_Exercise: the text normalizer        *)
(* (text_cleaner.py), the fence-stripping step and the two JSON contracts  *)
(* (receive_json.py, enrich_from_json.py), the image synthesis contract    *)
(* (image_generation.py) and the handlers of the image window              *)
(* (ui_image_generation.py) and of the PDF-to-JSON window                  *)
(* (ui_json_generation.py).                                                *)
(*                                                                         *)
(* A text is a sequence of characters; a character is a one-element        *)
(* string, except the backtick and the three non-ASCII code points the     *)
(* normalizer handles, which are named by their code point.                *)
(***************************************************************************)
EXTENDS Integers, Sequences, FiniteSets, TLC

VARIABLES
    raw,        \* normalize_for_llm: the argument `raw`
    lines,      \* normalize_for_llm: `lines` after text.split("\n") (step 4)
    merged,     \* normalize_for_llm: `merged` after the step-4 loop
    text,       \* normalize_for_llm(raw), the returned text
    again,      \* normalize_for_llm(text), the result of a second application
    npc,        \* position of the normalizer's caller
    inner,      \* the text t that a fenced block is put around
    tagged,     \* whether the opening fence carries the "json" tag
    fenced_out, \* _strip_json_block of t inside a fenced block
    bare_out,   \* _strip_json_block of t itself
    fpc,        \* position of the fence-stripping caller
    api_key,    \* the environment's GEMINI_API_KEY: "unset", "blank" or "set"
    callee,     \* the contract function that was called, or "none"
    calls,      \* number of generate_content calls made
    response,   \* response.text of the call made
    outcome,    \* "none", "return" or "raise"
    value,      \* the value returned
    exc,        \* the class of the exception raised
    msg,        \* which raise statement raised it
    file,       \* load_json: the content of the file at `path`
    prompt,     \* generate_image: the argument `prompt`
    candidates, \* generate_image: response.candidates, each its content.parts
    prompt_text,         \* image window: the content of the prompt box
    current_photo,       \* image window: the image the label shows, or None
    current_image_bytes, \* image window: the bytes Save writes, or None
    label_image,         \* image window: the text of the image label
    dialog,              \* the title of the last message box shown, or ""
    written,             \* image window: the bytes of the file last written
    last_generate,       \* image window: how the last generation ended
    selected_path,  \* PDF-to-JSON window: the file chosen, or ""
    result_text,    \* PDF-to-JSON window: the content of the result area
    json_dialog,    \* PDF-to-JSON window: title of the last box or window shown
    last_extract,   \* PDF-to-JSON window: how the last extraction ended
    submitted,      \* the text the last Get JSON passed to extract_structured_data
    get_json_calls  \* generate_content calls made by the last Get JSON

nvars == <<raw, lines, merged, text, again, npc>>
fvars == <<inner, tagged, fenced_out, bare_out, fpc>>
cvars == <<api_key, callee, calls, response, outcome, value, exc, msg,
           file, prompt, candidates>>
wvars == <<prompt_text, current_photo, current_image_bytes, label_image,
           dialog, written, last_generate>>
jvars == <<selected_path, result_text, json_dialog, last_extract, submitted,
           get_json_calls>>
vars == <<nvars, fvars, cvars, wvars, jvars>>

-----------------------------------------------------------------------------
(* Characters and the character classes of Python's re module.             *)

REPLACEMENT_CHAR == "U+FFFD"
EURO == "U+20AC"
EM_DASH == "U+2014"
NL == "\n"
SP == " "
BAR == "|"

\* \d
IsDigit(c) == c \in {"0", "1", "2", "3", "4", "5", "6", "7", "8", "9"}

\* the letters that occur in the texts of this model
IsLetter(c) ==
    c \in {"a", "b", "c", "e", "j", "n", "o", "r", "s", "u", "x", "y",
           "B", "E", "R", "U"}

\* \w
IsWord(c) == IsLetter(c) \/ IsDigit(c) \/ c = "_"

\* \s, and the characters str.strip() / str.rstrip() remove
IsSpace(c) == c \in {" ", "\n", "\t", "\r"}

\* re.IGNORECASE: the case folding of the letters the patterns name
Lower(c) ==
    CASE c = "B" -> "b"
      [] c = "R" -> "r"
      [] c = "E" -> "e"
      [] c = "U" -> "u"
      [] OTHER -> c

\* s[i], or the empty string (in no character class) outside the text
At(s, i) == IF i \in 1..Len(s) THEN s[i] ELSE ""

\* the first position at or after i that holds no whitespace (greedy \s*)
SkipSpace(s, i) ==
    LET J == {j \in i..(Len(s) + 1) : ~IsSpace(At(s, j))}
    IN  CHOOSE j \in J : \A k \in J : j <= k

\* the first position at or after i that holds no digit (greedy \d+)
SkipDigits(s, i) ==
    LET J == {j \in i..(Len(s) + 1) : ~IsDigit(At(s, j))}
    IN  CHOOSE j \in J : \A k \in J : j <= k

-----------------------------------------------------------------------------
(* text_cleaner.py, the patterns of normalize_for_llm                      *)

\* r"<br\s*/?>", IGNORECASE
MatchBr(s, i) ==
    IF At(s, i) = "<" /\ Lower(At(s, i + 1)) = "b" /\ Lower(At(s, i + 2)) = "r"
    THEN LET j == SkipSpace(s, i + 3)
             k == IF At(s, j) = "/" THEN j + 1 ELSE j
         IN  IF At(s, k) = ">" THEN k + 1 ELSE 0
    ELSE 0

ReplBr(s, i, e) == <<NL>>

\* rf"(\w)\s*{REPLACEMENT_CHAR}\s*(\w)" -> r"\1 — \2"
MatchMarkerBetweenWords(s, i) ==
    IF IsWord(At(s, i))
    THEN LET j == SkipSpace(s, i + 1)
         IN  IF At(s, j) = REPLACEMENT_CHAR
             THEN LET k == SkipSpace(s, j + 1)
                  IN  IF IsWord(At(s, k)) THEN k + 1 ELSE 0
             ELSE 0
    ELSE 0

ReplMarkerBetweenWords(s, i, e) == <<s[i], SP, EM_DASH, SP, s[e - 1]>>

\* rf"(\d)\s*{REPLACEMENT_CHAR}\s*" -> r"\1€ "
MatchMarkerAfterDigit(s, i) ==
    IF IsDigit(At(s, i))
    THEN LET j == SkipSpace(s, i + 1)
         IN  IF At(s, j) = REPLACEMENT_CHAR THEN SkipSpace(s, j + 1) ELSE 0
    ELSE 0

ReplMarkerAfterDigit(s, i, e) == <<s[i], EURO, SP>>

\* rf"\s*{REPLACEMENT_CHAR}\s*" -> " — "
MatchMarker(s, i) ==
    LET j == SkipSpace(s, i)
    IN  IF At(s, j) = REPLACEMENT_CHAR THEN SkipSpace(s, j + 1) ELSE 0

ReplMarker(s, i, e) == <<SP, EM_DASH, SP>>

\* r"\beur\b", IGNORECASE -> "EUR"
MatchEur(s, i) ==
    IF /\ Lower(At(s, i)) = "e"
       /\ Lower(At(s, i + 1)) = "u"
       /\ Lower(At(s, i + 2)) = "r"
       /\ ~IsWord(At(s, i - 1))
       /\ ~IsWord(At(s, i + 3))
    THEN i + 3
    ELSE 0

ReplEur(s, i, e) == <<"E", "U", "R">>

\* the end of the group (\d+(?:[.,]\d+)?) that starts at the digit s[i]
AmountEnd(s, i) ==
    LET j == SkipDigits(s, i)
    IN  IF At(s, j) \in {".", ","} /\ IsDigit(At(s, j + 1))
        THEN SkipDigits(s, j + 1)
        ELSE j

\* r"(\d+(?:[.,]\d+)?)\s*€\s*" -> r"\1 EUR "
MatchAmountEuro(s, i) ==
    IF IsDigit(At(s, i))
    THEN LET m == SkipSpace(s, AmountEnd(s, i))
         IN  IF At(s, m) = EURO THEN SkipSpace(s, m + 1) ELSE 0
    ELSE 0

\* the rewrite with the space before the code forgotten ("15EUR ")
ReplAmountEuro_NoSpace(s, i, e) ==
    SubSeq(s, i, AmountEnd(s, i) - 1) \o <<"E", "U", "R", SP>>

ReplAmountEuro(s, i, e) ==
    SubSeq(s, i, AmountEnd(s, i) - 1) \o <<SP, "E", "U", "R", SP>>

\* r"\n{3,}" -> "\n\n"
MatchNewlines(s, i) ==
    IF At(s, i) = NL /\ At(s, i + 1) = NL /\ At(s, i + 2) = NL
    THEN LET J == {j \in (i + 3)..(Len(s) + 1) : At(s, j) # NL}
         IN  CHOOSE j \in J : \A k \in J : j <= k
    ELSE 0

ReplNewlines(s, i, e) == <<NL, NL>>

\* the compiled patterns, by name: where the match that starts at s[i] ends
\* (the position after it), or 0 when the pattern does not match at i
Match(pattern, s, i) ==
    CASE pattern = "br" -> MatchBr(s, i)
      [] pattern = "marker between words" -> MatchMarkerBetweenWords(s, i)
      [] pattern = "marker after digit" -> MatchMarkerAfterDigit(s, i)
      [] pattern = "marker" -> MatchMarker(s, i)
      [] pattern = "eur" -> MatchEur(s, i)
      [] pattern = "amount euro" -> MatchAmountEuro(s, i)
      [] pattern = "newlines" -> MatchNewlines(s, i)

\* the replacement of the match s[i..e-1] of the pattern
Repl(pattern, s, i, e) ==
    CASE pattern = "br" -> ReplBr(s, i, e)
      [] pattern = "marker between words" -> ReplMarkerBetweenWords(s, i, e)
      [] pattern = "marker after digit" -> ReplMarkerAfterDigit(s, i, e)
      [] pattern = "marker" -> ReplMarker(s, i, e)
      [] pattern = "eur" -> ReplEur(s, i, e)
      [] pattern = "amount euro" -> ReplAmountEuro(s, i, e)
      [] pattern = "newlines" -> ReplNewlines(s, i, e)

\* re.sub(pattern, repl, s): leftmost non-overlapping matches, left to right
ReSub(pattern, s) ==
    LET f[i \in 1..(Len(s) + 1)] ==
            IF i > Len(s) THEN <<>>
            ELSE LET e == Match(pattern, s, i)
                 IN  IF e > 0 THEN Repl(pattern, s, i, e) \o f[e]
                              ELSE <<s[i]>> \o f[i + 1]
    IN  f[1]

\* re.search(pattern, s) is not None
ReFound(pattern, s) == \E i \in 1..Len(s) : Match(pattern, s, i) > 0

-----------------------------------------------------------------------------
(* str methods                                                             *)

\* text.split("\n")
Split(s) ==
    LET f[i \in 0..Len(s)] ==
            \* the lines of s[1..i]
            IF i = 0 THEN <<(<<>>)>>
            ELSE LET p == f[i - 1]
                 IN  IF s[i] = NL THEN Append(p, <<>>)
                     ELSE [p EXCEPT ![Len(p)] = Append(@, s[i])]
    IN  f[Len(s)]

\* "\n".join(ls)
Join(ls) ==
    LET f[i \in 0..Len(ls)] ==
            IF i = 0 THEN <<>>
            ELSE IF i = 1 THEN ls[1]
            ELSE f[i - 1] \o <<NL>> \o ls[i]
    IN  f[Len(ls)]

\* line.rstrip()
RStrip(s) ==
    LET E == {e \in 0..Len(s) : \A k \in (e + 1)..Len(s) : IsSpace(s[k])}
        e == CHOOSE x \in E : \A y \in E : x <= y
    IN  SubSeq(s, 1, e)

\* line.strip()
Strip(s) ==
    LET r == RStrip(s)
    IN  SubSeq(r, SkipSpace(r, 1), Len(r))

\* text.strip("\n")
StripNewlines(s) ==
    LET E == {e \in 0..Len(s) : \A k \in (e + 1)..Len(s) : s[k] = NL}
        e == CHOOSE x \in E : \A y \in E : x <= y
        B == {b \in 1..(e + 1) : \A k \in 1..(b - 1) : s[k] = NL}
        b == CHOOSE x \in B : \A y \in B : x >= y
    IN  SubSeq(s, b, e)

EndsWithBar(s) == Len(s) > 0 /\ s[Len(s)] = BAR
StartsWithBar(s) == Len(s) > 0 /\ s[1] = BAR

-----------------------------------------------------------------------------
(* normalize_for_llm, step by step                                         *)

\* step 1: HTML line breaks -> newlines
BreaksToNewlines(s) == ReSub("br", s)

\* step 2: the three replacement-character heuristics, in source order
RepairMarkers(s) ==
    LET t1 == ReSub("marker between words", s)
        t2 == ReSub("marker after digit", t1)
    IN  ReSub("marker", t2)

\* step 3: currency
NormalizeCurrency(s) ==
    ReSub("amount euro", ReSub("eur", s))

\* the condition of the step-4 loop body for one line, given `merged` so far
IsContinuation(line, m) ==
    LET stripped == Strip(line)
    IN  EndsWithBar(stripped) /\ ~StartsWithBar(stripped) /\ m # <<>>

\* the loop appending the line itself instead of its trimmed content
MergeContinuations_Untrimmed(ls) ==
    LET f[i \in 0..Len(ls)] ==
            IF i = 0 THEN <<>>
            ELSE LET m == f[i - 1]
                 IN  IF IsContinuation(ls[i], m)
                     THEN [m EXCEPT ![Len(m)] = @ \o <<SP>> \o ls[i]]
                     ELSE Append(m, ls[i])
    IN  f[Len(ls)]

\* step 4: the loop over `lines` that builds `merged`
MergeContinuations(ls) ==
    LET f[i \in 0..Len(ls)] ==
            IF i = 0 THEN <<>>
            ELSE LET m == f[i - 1]
                 IN  IF IsContinuation(ls[i], m)
                     THEN [m EXCEPT ![Len(m)] = @ \o <<SP>> \o Strip(ls[i])]
                     ELSE Append(m, ls[i])
    IN  f[Len(ls)]

\* step 5: right-trim lines, collapse newline runs, strip blank lines
RStripLines(ls) == [k \in 1..Len(ls) |-> RStrip(ls[k])]

CollapseNewlines(s) == ReSub("newlines", s)

\* step 5 without the right-trim of the lines
NormalizeWhitespace_NoRStrip(m) == StripNewlines(CollapseNewlines(Join(m)))

NormalizeWhitespace(m) == StripNewlines(CollapseNewlines(Join(RStripLines(m))))

\* steps 1-3: the text that step 4 splits
BeforeMerge(r) == NormalizeCurrency(RepairMarkers(BreaksToNewlines(r)))

normalize_for_llm(r) ==
    IF r = <<>> THEN r
    ELSE NormalizeWhitespace(MergeContinuations(Split(BeforeMerge(r))))

-----------------------------------------------------------------------------
(* receive_json.py / enrich_from_json.py: _strip_json_block (the two copies *)
(* are the same code)                                                      *)

\* the backtick, named by its code point like the non-ASCII characters
BACKTICK == "U+0060"

\* "```" at s[i..i+2]
FenceAt(s, i) ==
    At(s, i) = BACKTICK /\ At(s, i + 1) = BACKTICK /\ At(s, i + 2) = BACKTICK

\* raw.strip()
StripText(s) == Strip(s)

\* the start of group 1 when r"```(?:json)?\s*" matches at i
GroupStart(s, i) ==
    LET j == IF /\ At(s, i + 3) = "j" /\ At(s, i + 4) = "s"
                /\ At(s, i + 5) = "o" /\ At(s, i + 6) = "n"
             THEN i + 7 ELSE i + 3
    IN  SkipSpace(s, j)

\* the ends of group 1 (the position after it) at which r"\s*```" matches
GroupEnds(s, i) ==
    {q \in GroupStart(s, i)..(Len(s) + 1) : FenceAt(s, SkipSpace(s, q))}

\* r"```(?:json)?\s*([\s\S]*?)\s*```" matches at i
MatchFence(s, i) == FenceAt(s, i) /\ GroupEnds(s, i) # {}

\* match.group(1) of the match at i: the lazy group takes the shortest end
Group1(s, i) ==
    LET q == CHOOSE x \in GroupEnds(s, i) : \A y \in GroupEnds(s, i) : x <= y
    IN  SubSeq(s, GroupStart(s, i), q - 1)

_strip_json_block(r) ==
    LET s == StripText(r)
        M == {i \in 1..Len(s) : MatchFence(s, i)}
    IN  IF M # {}
        THEN StripText(Group1(s, CHOOSE i \in M : \A k \in M : i <= k))
        ELSE s

-----------------------------------------------------------------------------
(* JSON. In a response text a JSON string literal, number or keyword is    *)
(* one element of the sequence (a lexeme); brackets, colon, comma,         *)
(* whitespace and everything outside JSON are characters.                  *)

KEY_SUMMARY == "\"marketing_summary\""
KEY_PROMPT == "\"image_prompt\""
STR_EMPTY == "\"\""
STR_X == "\"x\""
STR_BOTH == "\"marketing_summary image_prompt\""
KEY_MENU == "\"menu_items\""
KEY_EVENT == "\"event\""

StringLexemes ==
    {KEY_SUMMARY, KEY_PROMPT, STR_EMPTY, STR_X, STR_BOTH, KEY_MENU, KEY_EVENT}

\* the str a string literal denotes
StrContent(lexeme) ==
    CASE lexeme = KEY_SUMMARY -> "marketing_summary"
      [] lexeme = KEY_PROMPT -> "image_prompt"
      [] lexeme = STR_EMPTY -> ""
      [] lexeme = STR_X -> "x"
      [] lexeme = STR_BOTH -> "marketing_summary image_prompt"
      [] lexeme = KEY_MENU -> "menu_items"
      [] lexeme = KEY_EVENT -> "event"

\* Python values: dict (a function from keys), list, str, int, bool, None
JDict(d) == [t |-> "dict", v |-> d]
JList(l) == [t |-> "list", v |-> l]
JStr(c) == [t |-> "str", v |-> c]
JNum(n) == [t |-> "int", v |-> n]
JBool(b) == [t |-> "bool", v |-> b]
JNone == [t |-> "NoneType", v |-> "None"]

JFail == [ok |-> FALSE, val |-> JNone, next |-> 0]
JOk(v, n) == [ok |-> TRUE, val |-> v, next |-> n]

RECURSIVE ParseValue(_, _), ParseMembers(_, _, _), ParseElements(_, _, _)

\* the JSON value that starts at s[i]
ParseValue(s, i) ==
    LET c == At(s, i)
        j == SkipSpace(s, i + 1)
    IN  IF c = "{"
        THEN IF At(s, j) = "}" THEN JOk(JDict(<<>>), j + 1)
             ELSE ParseMembers(s, j, <<>>)
        ELSE IF c = "["
        THEN IF At(s, j) = "]" THEN JOk(JList(<<>>), j + 1)
             ELSE ParseElements(s, j, <<>>)
        ELSE IF c \in StringLexemes THEN JOk(JStr(StrContent(c)), i + 1)
        ELSE IF c = "5" THEN JOk(JNum("5"), i + 1)
        ELSE IF c = "true" THEN JOk(JBool("True"), i + 1)
        ELSE IF c = "null" THEN JOk(JNone, i + 1)
        ELSE JFail

\* the members of an object from the key at s[i] on; d holds those before it
\* (a repeated key keeps its last value)
ParseMembers(s, i, d) ==
    IF At(s, i) \notin StringLexemes THEN JFail
    ELSE LET j == SkipSpace(s, i + 1)
         IN  IF At(s, j) # ":" THEN JFail
             ELSE LET r == ParseValue(s, SkipSpace(s, j + 1))
                  IN  IF ~r.ok THEN JFail
                      ELSE LET k == SkipSpace(s, r.next)
                               d2 == (StrContent(s[i]) :> r.val) @@ d
                           IN  IF At(s, k) = ","
                               THEN ParseMembers(s, SkipSpace(s, k + 1), d2)
                               ELSE IF At(s, k) = "}" THEN JOk(JDict(d2), k + 1)
                               ELSE JFail

\* the elements of an array from the value at s[i] on; l holds those before it
ParseElements(s, i, l) ==
    LET r == ParseValue(s, i)
    IN  IF ~r.ok THEN JFail
        ELSE LET k == SkipSpace(s, r.next)
                 l2 == Append(l, r.val)
             IN  IF At(s, k) = "," THEN ParseElements(s, SkipSpace(s, k + 1), l2)
                 ELSE IF At(s, k) = "]" THEN JOk(JList(l2), k + 1)
                 ELSE JFail

\* json.loads(s): one value with whitespace around it and nothing else;
\* ok is FALSE where json.loads raises JSONDecodeError
json_loads(s) ==
    LET r == ParseValue(s, SkipSpace(s, 1))
    IN  IF r.ok /\ SkipSpace(s, r.next) = Len(s) + 1 THEN r ELSE JFail

\* the str a contains the str b (the cases of the strings of this model)
StrContains(a, b) ==
    \/ a = b
    \/ a = "marketing_summary image_prompt"
           /\ b \in {"marketing_summary", "image_prompt"}
    \/ b = ""

\* Python's `key in out`: "TypeError" where out is not a container
KeyIn(key, out) ==
    CASE out.t = "dict" -> IF key \in DOMAIN out.v THEN "True" ELSE "False"
      [] out.t = "list" ->
             IF \E k \in 1..Len(out.v) : out.v[k] = JStr(key) THEN "True" ELSE "False"
      [] out.t = "str" -> IF StrContains(out.v, key) THEN "True" ELSE "False"
      [] OTHER -> "TypeError"

-----------------------------------------------------------------------------
(* The texts the normalizer is applied to.                                 *)

MaxTableLen == 6
MaxMarkerLen == 5
MaxBreakPieces == 3
MaxDigits == 2

\* every text of at most n characters of A
Texts(A, n) == UNION {[1..k -> A] : k \in 0..n}

\* every concatenation of at most n of the pieces P
PieceTexts(P, n) ==
    LET f[k \in 0..n] ==
            IF k = 0 THEN {<<>>}
            ELSE f[k - 1] \cup {t \o p : t \in f[k - 1], p \in P}
    IN  f[n]

\* table rows, blank lines and trailing blanks
TableTexts == Texts({"a", BAR, SP, NL}, MaxTableLen)

\* corruption markers among letters, digits and blanks
MarkerTexts == Texts({"a", "1", REPLACEMENT_CHAR, SP}, MaxMarkerLen)

\* HTML line breaks, whole and in parts
BreakTexts ==
    PieceTexts({<<"<", "b", "r">>, <<"<", "B", "R">>, <<"<", "b", "r", ">">>,
                <<">">>, <<"/">>, <<SP>>, <<NL>>, <<"a">>},
               MaxBreakPieces)

\* an amount followed by the euro sign or by " EUR" in any letter case
IntParts == Texts({"1", "5"}, MaxDigits) \ {<<>>}

Amounts ==
    IntParts \cup {i \o <<p>> \o d : i \in IntParts, p \in {".", ","}, d \in IntParts}

CurrencySuffixes ==
    {<<EURO>>} \cup
    {<<SP, e, u, r>> : e \in {"e", "E"}, u \in {"u", "U"}, r \in {"r", "R"}}

CurrencyTexts == {a \o x : a \in Amounts, x \in CurrencySuffixes}

RawTexts == TableTexts \cup MarkerTexts \cup BreakTexts \cup CurrencyTexts

-----------------------------------------------------------------------------
(* The texts the fence-stripping step and the contracts are applied to.    *)

MaxInnerLen == 5
MaxMembers == 2

\* texts with backticks, blanks and newlines
InnerTexts == Texts({BACKTICK, "a", SP, NL}, MaxInnerLen)

FENCE == <<BACKTICK, BACKTICK, BACKTICK>>

\* three backticks, optional "json" tag, newline, t, newline, three backticks
Fenced(t, tag) ==
    FENCE \o (IF tag THEN <<"j", "s", "o", "n">> ELSE <<>>) \o <<NL>> \o t
          \o <<NL>> \o FENCE

\* JSON texts: scalars, arrays, and objects of at most MaxMembers members
ScalarTexts ==
    {<<"null">>, <<"true">>, <<"5">>, <<STR_EMPTY>>, <<STR_X>>, <<STR_BOTH>>}

ListTexts ==
    {<<"[", "]">>, <<"[", "5", "]">>, <<"[", KEY_SUMMARY, ",", KEY_PROMPT, "]">>}

MemberTexts ==
    {<<k, ":", SP, v>> : k \in {KEY_SUMMARY, KEY_PROMPT},
                         v \in {STR_EMPTY, STR_X, "null"}}

MemberLists ==
    LET f[n \in 0..MaxMembers] ==
            IF n = 0 THEN {<<>>}
            ELSE IF n = 1 THEN f[0] \cup MemberTexts
            ELSE f[n - 1] \cup {l \o <<",">> \o m : l \in f[n - 1] \ {<<>>},
                                                     m \in MemberTexts}
    IN  f[MaxMembers]

ObjectTexts == {<<"{">> \o l \o <<"}">> : l \in MemberLists}

\* an array or object cut off before its closing bracket
TruncatedTexts == {SubSeq(b, 1, Len(b) - 1) : b \in ListTexts \cup ObjectTexts}

BodyTexts ==
    ScalarTexts \cup ListTexts \cup ObjectTexts \cup TruncatedTexts
        \cup {<<>>, <<"x">>}

\* what response.text can be: a body, bare, padded or in a fenced block
Responses ==
    BodyTexts \cup {<<SP>> \o b \o <<NL>> : b \in BodyTexts}
              \cup {Fenced(b, tag) : b \in BodyTexts, tag \in BOOLEAN}

-----------------------------------------------------------------------------
(* The prompts generate_image is called with and the responses of the      *)
(* image capability.                                                       *)

MaxCandidates == 2
MaxParts == 3

PNG_A == "PNG_A"
PNG_B == "PNG_B"

\* a part of a candidate's content: `inline` is "part.inline_data is not
\* None", `data` is part.inline_data.data ("" for None or empty bytes)
Parts ==
    {[inline |-> FALSE, data |-> ""], [inline |-> TRUE, data |-> ""],
     [inline |-> TRUE, data |-> PNG_A], [inline |-> TRUE, data |-> PNG_B]}

\* the parts of all the candidates, in order
AllParts(c) ==
    LET f[n \in 0..Len(c)] == IF n = 0 THEN <<>> ELSE f[n - 1] \o c[n]
    IN  f[Len(c)]

\* response.candidates: each candidate is its content.parts; at most
\* MaxCandidates candidates that hold at most MaxParts parts altogether
ImageResponses ==
    LET f[k \in 0..MaxCandidates] ==
            IF k = 0 THEN {<<>>}
            ELSE f[k - 1] \cup
                 UNION {{Append(c, parts) :
                            parts \in Texts(Parts, MaxParts - Len(AllParts(c)))} :
                        c \in {d \in f[k - 1] : Len(d) = k - 1}}
    IN  f[MaxCandidates]

\* what client.models.generate_content does: it raises or it responds
ImageReplies ==
    {[raises |-> TRUE, candidates |-> <<>>]}
        \cup {[raises |-> FALSE, candidates |-> c] : c \in ImageResponses}

\* what model.generate_content does: it raises or it responds
TextReplies ==
    {[raises |-> TRUE, text |-> <<>>]}
        \cup {[raises |-> FALSE, text |-> r] : r \in Responses}

\* what the file load_json opens can hold: values that are not objects,
\* objects with neither, one or both of the required keys, texts that are
\* not JSON
FileTexts ==
    {<<"5">>, <<"[", "]">>, <<"{", "}">>,
     <<"{", KEY_MENU, ":", SP, "[", "]", "}">>,
     <<"{", KEY_EVENT, ":", SP, "{", "}", "}">>,
     <<"{", KEY_MENU, ":", SP, "[", "]", ",", SP,
            KEY_EVENT, ":", SP, "{", "}", "}", NL>>,
     <<"{", KEY_MENU, ":", SP, "[", "]", ",">>,
     <<>>}

\* empty, whitespace-only, plain and padded prompts
PromptTexts ==
    {<<>>, <<SP>>, <<NL>>, <<SP, NL>>, <<"a">>, <<SP, "a", NL>>}

-----------------------------------------------------------------------------
(* The components; each specification runs one of them and leaves the      *)
(* others idle.                                                            *)

IdleNormalizer ==
    /\ raw = <<>> /\ lines = <<>> /\ merged = <<>> /\ text = <<>>
    /\ again = <<>> /\ npc = "off"

IdleFence ==
    /\ inner = <<>> /\ tagged = FALSE /\ fenced_out = <<>> /\ bare_out = <<>>
    /\ fpc = "off"

IdleContracts ==
    /\ api_key = "unset" /\ callee = "off" /\ calls = 0 /\ response = <<>>
    /\ outcome = "none" /\ value = JNone /\ exc = "" /\ msg = ""
    /\ file = <<>> /\ prompt = <<>> /\ candidates = <<>>

LABEL_HINT == "Generate an image to see it here."

\* no generation yet
NoGeneration == [how |-> "none", bytes |-> JNone]

IdleImageWindow ==
    /\ prompt_text = <<>> /\ current_photo = JNone
    /\ current_image_bytes = JNone /\ label_image = LABEL_HINT
    /\ dialog = "" /\ written = JNone /\ last_generate = NoGeneration

\* no extraction yet
NoExtraction == [how |-> "none", text |-> <<>>]

\* Get JSON passed nothing to extract_structured_data
NotSubmitted == [sent |-> FALSE, text |-> <<>>]

IdleJsonWindow ==
    /\ selected_path = "" /\ result_text = <<>> /\ json_dialog = ""
    /\ last_extract = NoExtraction /\ submitted = NotSubmitted
    /\ get_json_calls = 0

-----------------------------------------------------------------------------
(* The normalizer and its caller                                           *)

InitNormalizer ==
    /\ raw \in RawTexts
    /\ lines = <<>>
    /\ merged = <<>>
    /\ text = <<>>
    /\ again = <<>>
    /\ npc = "ready"
    /\ IdleFence
    /\ IdleContracts
    /\ IdleImageWindow
    /\ IdleJsonWindow

\* text = normalize_for_llm(raw), with the locals of step 4 kept
Normalize ==
    /\ npc = "ready"
    /\ IF raw = <<>>
       THEN UNCHANGED <<lines, merged>>
       ELSE /\ lines' = Split(BeforeMerge(raw))
            /\ merged' = MergeContinuations(Split(BeforeMerge(raw)))
    /\ text' = normalize_for_llm(raw)
    /\ npc' = "normalized"
    /\ UNCHANGED <<raw, again, fvars, cvars, wvars, jvars>>

\* the returned text is normalized once more
Renormalize ==
    /\ npc = "normalized"
    /\ again' = normalize_for_llm(text)
    /\ npc' = "renormalized"
    /\ UNCHANGED <<raw, lines, merged, text, fvars, cvars, wvars, jvars>>

NextNormalizer == Normalize \/ Renormalize

SpecNormalizer == InitNormalizer /\ [][NextNormalizer]_vars

-----------------------------------------------------------------------------
(* The fence-stripping step, on a text inside a fenced block and on the    *)
(* text itself                                                             *)

InitFence ==
    /\ inner \in InnerTexts
    /\ tagged \in BOOLEAN
    /\ fenced_out = <<>>
    /\ bare_out = <<>>
    /\ fpc = "ready"
    /\ IdleNormalizer
    /\ IdleContracts
    /\ IdleImageWindow
    /\ IdleJsonWindow

StripFenced ==
    /\ fpc = "ready"
    /\ fenced_out' = _strip_json_block(Fenced(inner, tagged))
    /\ fpc' = "fenced"
    /\ UNCHANGED <<inner, tagged, bare_out, nvars, cvars, wvars, jvars>>

StripBare ==
    /\ fpc = "fenced"
    /\ bare_out' = _strip_json_block(inner)
    /\ fpc' = "both"
    /\ UNCHANGED <<inner, tagged, fenced_out, nvars, cvars, wvars, jvars>>

NextFence == StripFenced \/ StripBare

SpecFence == InitFence /\ [][NextFence]_vars

-----------------------------------------------------------------------------
(* The two JSON contracts and the image synthesis contract                 *)

InitContracts ==
    /\ api_key \in {"unset", "blank", "set"}
    /\ callee = "none"
    /\ calls = 0
    /\ response = <<>>
    /\ outcome = "none"
    /\ value = JNone
    /\ exc = ""
    /\ msg = ""
    /\ file = <<>>
    /\ prompt = <<>>
    /\ candidates = <<>>
    /\ IdleNormalizer
    /\ IdleFence
    /\ IdleImageWindow
    /\ IdleJsonWindow

Raise(e, m) == outcome' = "raise" /\ exc' = e /\ msg' = m /\ value' = JNone

Return(v) == outcome' = "return" /\ value' = v /\ exc' = "" /\ msg' = ""

\* how a call ends: it raised e at the raise statement m, or it returned v,
\* after n calls of generate_content
Raised(e, m, n) ==
    [outcome |-> "raise", exc |-> e, msg |-> m, value |-> JNone, calls |-> n]

Returned(v, n) ==
    [outcome |-> "return", exc |-> "", msg |-> "", value |-> v, calls |-> n]

\* the caller sees how the call ended
Deliver(r) ==
    /\ IF r.outcome = "raise" THEN Raise(r.exc, r.msg) ELSE Return(r.value)
    /\ calls' = calls + r.calls

\* extract_structured_data with a second generate_content call after a
\* response that is not valid JSON
ExtractResult_Retry(key, reply) ==
    IF key # "set"
    THEN Raised("ValueError", "api key not set", 0)
    ELSE IF reply.raises
    THEN Raised("APIError", "generate_content", 1)
    ELSE IF reply.text = <<>>
    THEN Raised("ValueError", "empty response", 1)
    ELSE LET p == json_loads(_strip_json_block(reply.text))
         IN  IF p.ok
             THEN Returned(p.val, 1)
             ELSE Raised("ValueError", "not valid JSON", 2)

\* receive_json.extract_structured_data(cleaned_text), when the environment
\* holds `key` and model.generate_content does `reply`
ExtractResult(key, reply) ==
    IF key # "set"
    THEN \* _get_api_key raises
         Raised("ValueError", "api key not set", 0)
    ELSE IF reply.raises
    THEN Raised("APIError", "generate_content", 1)
    ELSE IF reply.text = <<>>
    THEN Raised("ValueError", "empty response", 1)
    ELSE LET p == json_loads(_strip_json_block(reply.text))
         IN  IF p.ok
             THEN Returned(p.val, 1)
             ELSE Raised("ValueError", "not valid JSON", 1)

extract_structured_data ==
    /\ callee = "none"
    /\ callee' = "extract_structured_data"
    /\ \E reply \in TextReplies :
           LET r == ExtractResult(api_key, reply)
           IN  /\ Deliver(r)
               /\ response' = IF r.calls = 0 THEN response ELSE reply.text
    /\ UNCHANGED <<api_key, file, prompt, candidates, nvars, fvars, wvars, jvars>>

\* enrich_from_json.load_json(path), when the file at `path` holds `f`
LoadResult(f) ==
    LET p == json_loads(f)
    IN  IF ~p.ok
        THEN Raised("JSONDecodeError", "json.load", 0)
        ELSE IF p.val.t # "dict"
        THEN Raised("ValueError", "root not object", 0)
        ELSE IF "menu_items" \notin DOMAIN p.val.v
                \/ "event" \notin DOMAIN p.val.v
        THEN Raised("ValueError", "missing menu_items/event", 0)
        ELSE Returned(p.val, 0)

load_json ==
    /\ callee = "none"
    /\ callee' = "load_json"
    /\ \E f \in FileTexts :
           /\ file' = f
           /\ Deliver(LoadResult(f))
    /\ UNCHANGED <<api_key, response, prompt, candidates, nvars, fvars, wvars, jvars>>

\* enrich_from_json.generate_summary_and_prompt(json_data), when the
\* environment holds `key` and model.generate_content does `reply`
EnrichResult(key, reply) ==
    IF key # "set"
    THEN \* _get_api_key raises
         Raised("ValueError", "api key not set", 0)
    ELSE IF reply.raises
    THEN Raised("APIError", "generate_content", 1)
    ELSE IF reply.text = <<>>
    THEN Raised("ValueError", "empty response", 1)
    ELSE LET p == json_loads(_strip_json_block(reply.text))
             s == KeyIn("marketing_summary", p.val)
             i == KeyIn("image_prompt", p.val)
         IN  IF ~p.ok
             THEN Raised("JSONDecodeError", "json.loads", 1)
             ELSE IF s = "TypeError"
             THEN Raised("TypeError", "not iterable", 1)
             ELSE IF s = "False" \/ i = "False"
             THEN Raised("ValueError", "missing keys", 1)
             ELSE Returned(p.val, 1)

generate_summary_and_prompt ==
    /\ callee = "none"
    /\ callee' = "generate_summary_and_prompt"
    /\ \E reply \in TextReplies :
           LET r == EnrichResult(api_key, reply)
           IN  /\ Deliver(r)
               /\ response' = IF r.calls = 0 THEN response ELSE reply.text
    /\ UNCHANGED <<api_key, file, prompt, candidates, nvars, fvars, wvars, jvars>>

JBytes(b) == [t |-> "bytes", v |-> b]

\* the loop without the `if raw:` test
FirstInlineData_AnyInline(parts) ==
    LET I == {i \in 1..Len(parts) : parts[i].inline}
    IN  IF I = {}
        THEN JNone
        ELSE JBytes(parts[CHOOSE i \in I : \A j \in I : i <= j].data)

\* the loop over response.candidates[0].content.parts: the first part whose
\* inline_data is not None and holds data
FirstInlineData(parts) ==
    LET I == {i \in 1..Len(parts) : parts[i].inline /\ parts[i].data # ""}
    IN  IF I = {}
        THEN JNone
        ELSE JBytes(parts[CHOOSE i \in I : \A j \in I : i <= j].data)

\* generate_image with the client created before the prompt is checked
GenerateImageResult_KeyFirst(p, key, reply) ==
    IF key # "set"
    THEN Raised("ValueError", "api key not set", 0)
    ELSE IF p = <<>> \/ Strip(p) = <<>>
    THEN Raised("ValueError", "Prompt must be non-empty.", 0)
    ELSE IF reply.raises
    THEN Raised("APIError", "generate_content", 1)
    ELSE IF reply.candidates = <<>>
    THEN Returned(JNone, 1)
    ELSE Returned(FirstInlineData(reply.candidates[1]), 1)

\* image_generation.generate_image(p), when the environment holds `key` and
\* client.models.generate_content does `reply`
GenerateImageResult(p, key, reply) ==
    IF p = <<>> \/ Strip(p) = <<>>
    THEN Raised("ValueError", "Prompt must be non-empty.", 0)
    ELSE IF key # "set"
    THEN \* _get_api_key raises
         Raised("ValueError", "api key not set", 0)
    ELSE IF reply.raises
    THEN Raised("APIError", "generate_content", 1)
    ELSE IF reply.candidates = <<>>
    THEN Returned(JNone, 1)
    ELSE Returned(FirstInlineData(reply.candidates[1]), 1)

generate_image ==
    /\ callee = "none"
    /\ callee' = "generate_image"
    /\ \E p \in PromptTexts, reply \in ImageReplies :
           LET r == GenerateImageResult(p, api_key, reply)
           IN  /\ prompt' = p
               /\ Deliver(r)
               /\ candidates' =
                      IF r.calls = 0 THEN candidates ELSE reply.candidates
    /\ UNCHANGED <<api_key, file, response, nvars, fvars, wvars, jvars>>

NextContracts ==
    \/ extract_structured_data
    \/ load_json
    \/ generate_summary_and_prompt
    \/ generate_image

SpecContracts == InitContracts /\ [][NextContracts]_vars

-----------------------------------------------------------------------------
(* The image window (ui_image_generation.py): the Generate and Save        *)
(* buttons                                                                 *)

\* what the image capability does when Generate calls it
GenerateReplies ==
    {[raises |-> TRUE, candidates |-> <<>>],
     [raises |-> FALSE, candidates |-> <<>>],
     [raises |-> FALSE, candidates |-> << <<[inline |-> FALSE, data |-> ""]>> >>],
     [raises |-> FALSE, candidates |-> << <<[inline |-> TRUE, data |-> PNG_A]>> >>],
     [raises |-> FALSE, candidates |-> << <<[inline |-> TRUE, data |-> PNG_B]>> >>]}

InitImageWindow ==
    /\ api_key \in {"unset", "blank", "set"}
    /\ callee = "off" /\ calls = 0 /\ response = <<>>
    /\ outcome = "none" /\ value = JNone /\ exc = "" /\ msg = ""
    /\ file = <<>> /\ prompt = <<>> /\ candidates = <<>>
    /\ IdleImageWindow
    /\ IdleJsonWindow
    /\ IdleNormalizer
    /\ IdleFence

\* the Generate button, with `p` in the prompt box; `shown` tells whether
\* PIL opens the returned bytes, `title` is the title of the error dialog
do_generate ==
    /\ \E p \in PromptTexts, reply \in GenerateReplies, shown \in BOOLEAN,
          title \in {"Error", "Quota exceeded"} :
           LET r == GenerateImageResult(Strip(p), api_key, reply)
           IN  /\ prompt_text' = p
               /\ IF Strip(p) = <<>>
                  THEN /\ dialog' = "Empty prompt"
                       /\ UNCHANGED <<current_photo, current_image_bytes,
                                      label_image, last_generate>>
                  ELSE IF r.outcome = "raise"
                  THEN /\ dialog' = IF r.exc = "ValueError" THEN "Error" ELSE title
                       /\ label_image' = LABEL_HINT
                       /\ last_generate' = [how |-> "error", bytes |-> JNone]
                       /\ UNCHANGED <<current_photo, current_image_bytes>>
                  ELSE IF r.value = JNone
                  THEN /\ dialog' = "No image"
                       /\ label_image' = LABEL_HINT
                       /\ current_photo' = JNone
                       /\ current_image_bytes' = JNone
                       /\ last_generate' = [how |-> "absent", bytes |-> JNone]
                  ELSE IF shown
                  THEN /\ current_image_bytes' = r.value
                       /\ current_photo' = r.value
                       /\ label_image' = ""
                       /\ last_generate' = [how |-> "image", bytes |-> r.value]
                       /\ UNCHANGED dialog
                  ELSE /\ dialog' = "Error"
                       /\ label_image' = LABEL_HINT
                       /\ current_photo' = JNone
                       /\ current_image_bytes' = JNone
                       /\ last_generate' =
                              [how |-> "display failed", bytes |-> r.value]
    /\ UNCHANGED <<written, nvars, fvars, cvars, jvars>>

\* the Save button; `chosen` tells whether the file dialog returned a path
do_save ==
    /\ IF current_image_bytes = JNone
       THEN /\ dialog' = "Nothing to save"
            /\ UNCHANGED written
       ELSE \E chosen \in BOOLEAN :
                IF chosen
                THEN /\ written' = current_image_bytes
                     /\ dialog' = "Saved"
                ELSE UNCHANGED <<written, dialog>>
    /\ UNCHANGED <<prompt_text, current_photo, current_image_bytes,
                   label_image, last_generate, nvars, fvars, cvars, jvars>>

NextImageWindow == do_generate \/ do_save

SpecImageWindow == InitImageWindow /\ [][NextImageWindow]_vars

-----------------------------------------------------------------------------
(* The PDF-to-JSON window (ui_json_generation.py): the Select PDF, Extract *)
(* text and Get JSON buttons                                               *)

\* "Extracting" followed by a horizontal ellipsis
PLACEHOLDER ==
    <<"E", "x", "t", "r", "a", "c", "t", "i", "n", "g", "U+2026">>

\* the paths the file dialog can return: "" when it is cancelled, a path
\* that does not exist, a directory, a file that is not a PDF, a PDF
Paths == {"", "missing.pdf", "folder", "notes.txt", "menu.pdf"}

\* what pymupdf4llm.to_markdown returns for the PDF
PdfTexts ==
    {<<>>, <<NL, SP>>, <<"a">>, <<"a", "<", "b", "r", ">", SP, "a", NL>>,
     <<"1", REPLACEMENT_CHAR, NL, NL, NL, "a">>}

\* what model.generate_content does when Get JSON calls the contract
GetJsonReplies ==
    {[raises |-> TRUE, text |-> <<>>], [raises |-> FALSE, text |-> <<>>],
     [raises |-> FALSE, text |-> <<"{", "}">>],
     [raises |-> FALSE, text |-> <<"[", "5">>]}

\* the exception pdf_extractor.extract_text raises for the path, or ""
ExtractTextError(path) ==
    CASE path = "missing.pdf" -> "FileNotFoundError"
      [] path \in {"folder", "notes.txt"} -> "ValueError"
      [] OTHER -> ""

InitJsonWindow ==
    /\ api_key \in {"unset", "blank", "set"}
    /\ callee = "off" /\ calls = 0 /\ response = <<>>
    /\ outcome = "none" /\ value = JNone /\ exc = "" /\ msg = ""
    /\ file = <<>> /\ prompt = <<>> /\ candidates = <<>>
    /\ IdleJsonWindow
    /\ IdleImageWindow
    /\ IdleNormalizer
    /\ IdleFence

\* the Select PDF button
choose_file ==
    /\ \E path \in Paths :
           selected_path' = IF path # "" THEN path ELSE selected_path
    /\ UNCHANGED <<result_text, json_dialog, last_extract, submitted,
                   get_json_calls, nvars, fvars, cvars, wvars>>

\* the Extract text button
do_extract ==
    /\ IF selected_path = ""
       THEN /\ json_dialog' = "No file"
            /\ UNCHANGED <<result_text, last_extract>>
       ELSE IF ExtractTextError(selected_path) # ""
       THEN \* the handlers show the error; the result area keeps what the
            \* try block put there before extract_text raised
            /\ result_text' = PLACEHOLDER
            /\ json_dialog' = "Error"
            /\ last_extract' = [how |-> "failed", text |-> <<>>]
       ELSE \E t \in PdfTexts :
                /\ result_text' = normalize_for_llm(t)
                /\ last_extract' = [how |-> "ok", text |-> normalize_for_llm(t)]
                /\ UNCHANGED json_dialog
    /\ UNCHANGED <<selected_path, submitted, get_json_calls,
                   nvars, fvars, cvars, wvars>>

\* the Get JSON button; result_text.get("1.0", tk.END) is the content of
\* the result area and a newline
do_get_json ==
    /\ LET t == Strip(result_text \o <<NL>>)
       IN  IF t = <<>>
           THEN /\ json_dialog' = "No text"
                /\ submitted' = NotSubmitted
                /\ get_json_calls' = 0
           ELSE \E reply \in GetJsonReplies :
                    LET r == ExtractResult(api_key, reply)
                    IN  /\ submitted' = [sent |-> TRUE, text |-> t]
                        /\ get_json_calls' = r.calls
                        /\ json_dialog' = IF r.outcome = "raise"
                                          THEN "Error"
                                          ELSE "Structured JSON"
    /\ UNCHANGED <<selected_path, result_text, last_extract,
                   nvars, fvars, cvars, wvars>>

NextJsonWindow == choose_file \/ do_extract \/ do_get_json

SpecJsonWindow == InitJsonWindow /\ [][NextJsonWindow]_vars

-----------------------------------------------------------------------------
(* Properties of the normalizer                                            *)

Normalized == npc \in {"normalized", "renormalized"}

Count(s, c) == Cardinality({i \in 1..Len(s) : s[i] = c})

\* C1: normalization is idempotent: normalizing the returned text once more
\* returns the same text.
C1_Idempotent == npc = "renormalized" => again = text

\* C2: the returned text holds no HTML line-break marker (no match of
\* "<br", optional whitespace, optional "/", ">", in any letter case).
C2_NoBreakMarker == Normalized => ~ReFound("br", text)

\* s is digits with an optional decimal part ("." or "," and digits)
IsAmount(s) ==
    \E k \in 1..Len(s) :
        /\ \A i \in 1..k : IsDigit(s[i])
        /\ \/ k = Len(s)
           \/ /\ k + 1 < Len(s)
              /\ s[k + 1] \in {".", ","}
              /\ \A i \in (k + 2)..Len(s) : IsDigit(s[i])

\* s is the euro sign, or " EUR" in any letter case
IsCurrencySuffix(s) ==
    \/ s = <<EURO>>
    \/ /\ Len(s) = 4
       /\ s[1] = SP
       /\ s[2] \in {"e", "E"} /\ s[3] \in {"u", "U"} /\ s[4] \in {"r", "R"}

\* the lengths n for which raw is an amount of n characters and a suffix
AmountSplits(r) ==
    {n \in 1..Len(r) : IsAmount(SubSeq(r, 1, n))
                       /\ IsCurrencySuffix(SubSeq(r, n + 1, Len(r)))}

\* C3, as claimed: an amount followed by the euro sign or by " EUR" in any
\* letter case is returned as the amount, a space, "EUR" and a trailing space.
C3_AmountEurTrailingSpace ==
    Normalized =>
        \A n \in AmountSplits(raw) :
            text = SubSeq(raw, 1, n) \o <<SP, "E", "U", "R", SP>>

\* C3, amended: such an input is returned as the amount (decimal part
\* unchanged), one space and upper-case "EUR", with no trailing space: the
\* right-trim of step 5 removes the space the rewrite leaves.
C3_AmountEur ==
    Normalized =>
        \A n \in AmountSplits(raw) :
            text = SubSeq(raw, 1, n) \o <<SP, "E", "U", "R">>

\* an amount with a decimal comma before the euro sign, and one before " eUr"
C3_Witness ==
    \/ /\ npc = "normalized"
       /\ raw = <<"1", "5", ",", "5", EURO>>
       /\ text = <<"1", "5", ",", "5", SP, "E", "U", "R">>
    \/ /\ npc = "normalized"
       /\ raw = <<"5", ".", "1", SP, "e", "U", "r">>
       /\ text = <<"5", ".", "1", SP, "E", "U", "R">>

\* the last position before i that holds no whitespace, or 0
PrevNonSpace(s, i) ==
    LET J == {j \in 0..(i - 1) : ~IsSpace(At(s, j))}
    IN  CHOOSE j \in J : \A k \in J : j >= k

\* the marker at s[i] lies between two word characters, whitespace aside
BetweenWords(s, i) ==
    /\ s[i] = REPLACEMENT_CHAR
    /\ IsWord(At(s, PrevNonSpace(s, i)))
    /\ IsWord(At(s, SkipSpace(s, i + 1)))

\* C4: every corruption marker that lies between two word characters is
\* replaced by an em dash with exactly one space on each side; so a text
\* whose markers all lie between word characters comes back with one such
\* em dash per marker, each between the two word characters.
C4_MarkerBetweenWords ==
    (Normalized /\ \A i \in 1..Len(raw) :
                       raw[i] = REPLACEMENT_CHAR => BetweenWords(raw, i))
    => /\ Count(text, EM_DASH) = Count(raw, REPLACEMENT_CHAR)
       /\ \A i \in 1..Len(text) :
              text[i] = EM_DASH =>
                  /\ At(text, i - 1) = SP /\ IsWord(At(text, i - 2))
                  /\ At(text, i + 1) = SP /\ IsWord(At(text, i + 2))

\* a line that, trimmed, ends with the table delimiter and does not start
\* with it
IsFragment(line) == EndsWithBar(Strip(line)) /\ ~StartsWithBar(Strip(line))

\* the lines of step 4 that the merge keeps as lines of their own, when the
\* lines in Folded are the ones folded into the line before them
KeptLines(Folded) == (1..Len(lines)) \ Folded

\* line k of step 4 followed by the trimmed lines after it that are in
\* Folded, each joined by one space
Row(k, Folded) ==
    LET J == {j \in k..Len(lines) : \A i \in (k + 1)..j : i \in Folded}
        last == CHOOSE j \in J : \A i \in J : j >= i
        g[n \in k..last] ==
            IF n = k THEN lines[k]
            ELSE g[n - 1] \o <<SP>> \o Strip(lines[n])
    IN  g[last]

\* `merged` is the kept lines in order, each with its folded lines appended
MergedIs(Folded) ==
    /\ Len(merged) = Len(lines) - Cardinality(Folded)
    /\ \A k \in KeptLines(Folded) :
           merged[Cardinality({j \in KeptLines(Folded) : j <= k})]
               = Row(k, Folded)

\* the text holds nothing that steps 1-3 rewrite
PlainTable(r) == \A i \in 1..Len(r) : r[i] \in {"a", BAR, SP, NL}

\* C5, as claimed: every line that, trimmed, ends with "|" and does not
\* start with "|" is folded into the line before it (joined by one space),
\* so the merge drops one line per such line.
C5_EveryFragmentFolded ==
    (Normalized /\ Len(lines) > 1) =>
        MergedIs({k \in 1..Len(lines) : IsFragment(lines[k])})

\* C5, amended: every such line other than the first line of the text (which
\* has no line before it and is kept) is folded into the line before it,
\* joined by one space, consecutive ones into the same row; the merge drops
\* one line per such line. The lines are those of the text as it enters
\* step 4, which are the lines of the input when steps 1-3 change nothing.
C5_FragmentsAfterFirstFolded ==
    (Normalized /\ raw # <<>>) =>
        /\ MergedIs({k \in 2..Len(lines) : IsFragment(lines[k])})
        /\ PlainTable(raw) =>
               /\ Join(lines) = raw
               /\ \A k \in 1..Len(lines) : Count(lines[k], NL) = 0

\* two consecutive continuation lines fold into the row before them
C5_Witness ==
    /\ npc = "normalized"
    /\ Len(lines) = 3
    /\ IsFragment(lines[2]) /\ IsFragment(lines[3])
    /\ merged = <<lines[1] \o <<SP>> \o Strip(lines[2]) \o <<SP>> \o Strip(lines[3])>>

\* C6: no line of the returned text other than the first is a fragmented
\* table row (ends with "|" without starting with "|", trimmed).
C6_NoFragmentedRow ==
    Normalized =>
        \A k \in 2..Len(Split(text)) : ~IsFragment(Split(text)[k])

\* C7: the returned text has no run of three or more newlines, neither
\* begins nor ends with a newline, and none of its lines ends with
\* whitespace.
C7_CollapsedWhitespace ==
    Normalized =>
        /\ \A i \in 1..Len(text) :
               ~(At(text, i) = NL /\ At(text, i + 1) = NL /\ At(text, i + 2) = NL)
        /\ At(text, 1) # NL
        /\ At(text, Len(text)) # NL
        /\ \A i \in 1..(Len(text) + 1) :
               (i = Len(text) + 1 \/ text[i] = NL) =>
                   (At(text, i - 1) = NL \/ ~IsSpace(At(text, i - 1)))

\* a line with a trailing blank followed by a run of three newlines, and a
\* text that is blank lines around one row
C7_Witness ==
    \/ /\ npc = "normalized"
       /\ raw = <<"a", SP, NL, NL, NL, "a">>
       /\ text = <<"a", NL, NL, "a">>
    \/ /\ npc = "normalized"
       /\ raw = <<NL, SP, NL, BAR, SP, NL>>
       /\ text = <<BAR>>

-----------------------------------------------------------------------------
(* Properties of the fence-stripping step and of the contracts             *)

\* C8: _strip_json_block returns the same text for t inside a fenced block
\* (with or without the "json" tag) as for t itself.
C8_WrapInvariant == fpc = "both" => fenced_out = bare_out

\* the call got a response.text back from the external generator
GotResponse(f) ==
    callee = f /\ api_key = "set" /\ msg # "generate_content"

\* C9: extract_structured_data returns only a dict; for every other
\* response (empty, not JSON after fence stripping, a JSON value that is not
\* an object) it raises ValueError.
C9_ObjectOrValueError ==
    GotResponse("extract_structured_data") =>
        /\ outcome \in {"return", "raise"}
        /\ outcome = "return" => value.t = "dict"
        /\ outcome = "raise" => exc = "ValueError"

\* isinstance(e, ValueError): json.JSONDecodeError is a subclass of ValueError
IsValueError(e) == e \in {"ValueError", "JSONDecodeError"}

\* C10: generate_summary_and_prompt returns only a dict that holds
\* 'marketing_summary' and 'image_prompt' with non-empty values; for every
\* other response it raises ValueError and no other kind of exception.
C10_BothKeysOrValueError ==
    GotResponse("generate_summary_and_prompt") =>
        /\ outcome \in {"return", "raise"}
        /\ outcome = "return" =>
               /\ value.t = "dict"
               /\ \A k \in {"marketing_summary", "image_prompt"} :
                      /\ k \in DOMAIN value.v
                      /\ value.v[k] \notin {JStr(""), JNone}
        /\ outcome = "raise" => IsValueError(exc)

-----------------------------------------------------------------------------
(* Properties of the image synthesis contract and of the three contracts   *)
(* together                                                                *)

\* C11: generate_image called with an empty or whitespace-only prompt raises
\* ValueError 'Prompt must be non-empty.' before the API key is read (so
\* also when the key is unset or blank, where reading it would raise the
\* key error instead) and before any generate_content call: no call is
\* made and no response is received.
C11_BlankPromptFailsFirst ==
    (callee = "generate_image" /\ Strip(prompt) = <<>>) =>
        /\ outcome = "raise"
        /\ exc = "ValueError"
        /\ msg = "Prompt must be non-empty."
        /\ calls = 0
        /\ candidates = <<>>

\* a whitespace-only prompt in an environment without a key
C11_Witness ==
    /\ callee = "generate_image"
    /\ prompt = <<SP, NL>>
    /\ api_key = "unset"
    /\ msg = "Prompt must be non-empty."
    /\ calls = 0

\* generate_image got a response back from the image capability
ImageResponded == GotResponse("generate_image") /\ Strip(prompt) # <<>>

\* the part carries inline binary data
Carries(part) == part.inline /\ part.data # ""

\* v is None when no part of `parts` carries inline data, and otherwise the
\* data of the first part that does
FirstPayloadIs(parts, v) ==
    /\ v = JNone <=> \A i \in 1..Len(parts) : ~Carries(parts[i])
    /\ \A i \in 1..Len(parts) :
           (Carries(parts[i]) /\ \A j \in 1..(i - 1) : ~Carries(parts[j]))
               => v = JBytes(parts[i].data)

\* C12, as claimed: for every response, generate_image returns None exactly
\* when there are no candidates or no candidate carries inline binary data,
\* and otherwise the first inline payload found across the candidates.
C12_FirstPayloadAcrossCandidates ==
    ImageResponded =>
        /\ outcome = "return"
        /\ FirstPayloadIs(AllParts(candidates), value)

\* C12, amended: for every response, generate_image returns without raising;
\* it returns None exactly when there are no candidates or no part of the
\* first candidate carries non-empty inline data, and otherwise the data of
\* the first part of the first candidate that does, unmodified. Candidates
\* after the first are not looked at.
C12_FirstPayloadOfFirstCandidate ==
    ImageResponded =>
        /\ outcome = "return"
        /\ FirstPayloadIs(IF candidates = <<>> THEN <<>> ELSE candidates[1],
                          value)

\* the first candidate holds an inline part without data and then a
\* payload; a second candidate holds another payload
C12_Witness ==
    /\ callee = "generate_image"
    /\ candidates = << <<[inline |-> TRUE, data |-> ""],
                         [inline |-> TRUE, data |-> PNG_B]>>,
                       <<[inline |-> TRUE, data |-> PNG_A]>> >>
    /\ outcome = "return"
    /\ value = JBytes(PNG_B)

\* C13: no automatic retries: every invocation of extract_structured_data,
\* generate_summary_and_prompt or generate_image makes at most one
\* generate_content call and ends in one return or one raise; a failure
\* that follows the call (transport error, empty response, malformed JSON,
\* missing keys) is raised after exactly one call.
C13_NoRetry ==
    callee \in {"extract_structured_data", "generate_summary_and_prompt",
                "generate_image"} =>
        /\ calls <= 1
        /\ outcome \in {"return", "raise"}
        /\ msg \in {"generate_content", "empty response", "not valid JSON",
                    "json.loads", "not iterable", "missing keys"}
               => calls = 1

\* a response that is not valid JSON raised after the one call
C13_Witness ==
    /\ callee = "extract_structured_data"
    /\ response = <<"[", "5">>
    /\ outcome = "raise"
    /\ msg = "not valid JSON"
    /\ calls = 1

\* the raise statements that report bad input: a missing API key, an empty
\* prompt, a file whose JSON root is not an object or lacks a required key
InputErrors ==
    {"api key not set", "Prompt must be non-empty.", "root not object",
     "missing menu_items/event"}

\* the raise statements that report a response that breaks the contract:
\* empty text, text that is not JSON after fence stripping, missing keys
ContractViolations ==
    {"empty response", "not valid JSON", "json.loads", "missing keys"}

\* the exception classes the contracts raise for bad input
InputErrorKinds ==
    LET reply == [raises |-> FALSE, text |-> <<"{", "}">>]
        image == [raises |-> FALSE, candidates |-> <<>>]
    IN  {ExtractResult("unset", reply).exc, EnrichResult("blank", reply).exc,
         GenerateImageResult(<<>>, "set", image).exc,
         GenerateImageResult(<<"a">>, "unset", image).exc,
         LoadResult(<<"5">>).exc, LoadResult(<<"{", "}">>).exc}

\* C14: a contract violation (empty response, response that is not JSON
\* after fence stripping, JSON without the required keys) is raised as an
\* exception class that is not one of those raised for input errors, so a
\* caller can tell the two apart by the error raised.
C14_ViolationKindDistinct ==
    /\ (outcome = "raise" /\ msg \in InputErrors) => exc \in InputErrorKinds
    /\ (outcome = "raise" /\ msg \in ContractViolations)
           => exc \notin InputErrorKinds

-----------------------------------------------------------------------------
(* The priority of the marker rules                                        *)

\* the marker at s[i] follows a digit, whitespace aside
AfterDigit(s, i) ==
    s[i] = REPLACEMENT_CHAR /\ IsDigit(At(s, PrevNonSpace(s, i)))

\* the rule that the marker at s[i] falls under by its context in s: the
\* first of (1) between two word characters, (2) after a digit, (3) other
RuleOf(s, i) ==
    IF BetweenWords(s, i) THEN "between words"
    ELSE IF AfterDigit(s, i) THEN "after digit"
    ELSE "other"

MarkersUnder(s, rules) ==
    {i \in 1..Len(s) : s[i] = REPLACEMENT_CHAR /\ RuleOf(s, i) \in rules}

\* the text holds markers among letters, digits and blanks only
MarkerText(r) ==
    /\ \A i \in 1..Len(r) : r[i] \in {"a", "1", REPLACEMENT_CHAR, SP}
    /\ \E i \in 1..Len(r) : r[i] = REPLACEMENT_CHAR

\* C15: marker repair is decided per occurrence by priority: each marker of
\* the input is replaced by the first rule whose context condition it
\* satisfies in the input, so the returned text holds one em dash per
\* marker that lies between two word characters or in any context other
\* than after a digit, and one "EUR" per marker that follows a digit and
\* does not lie between two word characters.
C15_RuleByContext ==
    (Normalized /\ MarkerText(raw)) =>
        /\ Count(text, EM_DASH)
               = Cardinality(MarkersUnder(raw, {"between words", "other"}))
        /\ Count(text, "E")
               = Cardinality(MarkersUnder(raw, {"after digit"}))

-----------------------------------------------------------------------------
(* Properties of the image window                                          *)

\* C16: Save writes bytes to a file only if the most recent generation
\* ended with an image shown, and then the bytes of that generation; after
\* a generation that raised an error, returned None or could not be
\* displayed, the held bytes are cleared: Save reports "Nothing to save"
\* and writes nothing.
C16_SaveAfterLastGenerate ==
    [][do_save =>
           IF last_generate.how = "image"
           THEN written' \in {written, last_generate.bytes}
           ELSE dialog' = "Nothing to save" /\ written' = written]_vars

-----------------------------------------------------------------------------
(* Properties of the PDF-to-JSON window                                    *)

\* C17: the "Extracting" placeholder is never submitted as document text:
\* whatever Get JSON passes to extract_structured_data is the (trimmed)
\* normalized text of a successful last extraction; when the last
\* extraction failed, or there was none, Get JSON passes nothing, makes no
\* generate_content call and shows the "No text" warning.
C17_PlaceholderNeverSubmitted ==
    [][do_get_json =>
           /\ submitted'.sent =>
                  /\ last_extract.how = "ok"
                  /\ submitted'.text = Strip(last_extract.text)
           /\ last_extract.how # "ok" =>
                  /\ ~submitted'.sent
                  /\ get_json_calls' = 0
                  /\ json_dialog' = "No text"]_vars

====
